---------------------------- MODULE Spec2Model ----------------------------
(***************************************************************************)
(* A model of the to-do list manager: the task library (src/src/tasks.py,  *)
(* src/bug_fixed/tasks.py) and the handlers of the UI script               *)
(* (src/src/app.py).                                                       *)
(*                                                                         *)
(* Python values are modelled as follows.                                  *)
(*   - a str is the tuple of its code points ("a-b" is <<97, 45, 98>>);    *)
(*     priority and recurrence labels, which the code only tests for      *)
(*     equality or uses as dictionary keys, are TLA+ strings;              *)
(*   - a dict is a function from its keys (field names) to values, so a    *)
(*     missing key is a field name outside DOMAIN;                         *)
(*   - a list is a sequence;                                               *)
(*   - the dynamically typed due_date value carries its Python type in a   *)
(*     tag: a str, a datetime.date or None;                                *)
(*   - a call returns Ret(v) or raises: Raise(e).                          *)
(***************************************************************************)
EXTENDS Integers, Sequences, FiniteSets, TLC

VARIABLES
    file,      \* the content of the tasks file (DEFAULT_TASKS_FILE)
    tasks,     \* the in-memory task list: main()'s `tasks`, or a call's argument
    now,       \* the wall clock, in ticks (datetime.now())
    padYear,   \* whether the platform's strftime pads %Y to four digits
    call,      \* the last operation: its name, arguments and outcome
    procs      \* the processes running edit_task side by side: where each is in the
               \* call, the list it holds, and the order of their steps so far

vars == <<file, tasks, now, padYear, call, procs>>

(***************************************************************************)
(* Bounds of the model.                                                    *)
(***************************************************************************)
MaxTasks == 2       \* longest store the UI handlers build
MaxLen == 3         \* longest argument list of a library call
MaxInstances == 2   \* largest "Number of recurrences" entered in the form
MaxNow == 1         \* last clock tick
MaxId == 3          \* largest id the form assigns, and largest task_id passed to edit_task

(***************************************************************************)
(* Python results.                                                         *)
(***************************************************************************)
Ret(v) == [raised |-> "none", value |-> v]
Raise(e) == [raised |-> e]

(***************************************************************************)
(* Sequences.                                                              *)
(***************************************************************************)
RECURSIVE SeqMax(_)
SeqMax(s) ==
    IF Len(s) = 1 THEN Head(s)
    ELSE LET m == SeqMax(Tail(s)) IN IF Head(s) >= m THEN Head(s) ELSE m

Range(s) == {s[i] : i \in DOMAIN s}

SeqsUpTo(S, n) == UNION {[1..k -> S] : k \in 0..n}

(***************************************************************************)
(* str: tuples of code points.  LexLess is Python's str.__lt__.            *)
(***************************************************************************)
RECURSIVE LexLess(_, _)
LexLess(a, b) ==
    IF Len(b) = 0 THEN FALSE
    ELSE IF Len(a) = 0 THEN TRUE
    ELSE IF Head(a) # Head(b) THEN Head(a) < Head(b)
    ELSE LexLess(Tail(a), Tail(b))

IsDigit(c) == c >= 48 /\ c <= 57

RECURSIVE Digits(_)
\* str(n) for n >= 0: the decimal digits of n, no padding
Digits(n) == IF n < 10 THEN <<48 + n>> ELSE Digits(n \div 10) \o <<48 + (n % 10)>>

RECURSIVE Pad(_, _)
\* the decimal digits of n, zero-padded on the left to width w
Pad(n, w) == IF Len(Digits(n)) >= w THEN Digits(n) ELSE <<48>> \o Pad(n, w - 1)

RECURSIVE DigitsValue(_)
\* int(s) for a non-empty string of digits
DigitsValue(s) ==
    IF Len(s) = 1 THEN s[1] - 48
    ELSE 10 * DigitsValue(SubSeq(s, 1, Len(s) - 1)) + (s[Len(s)] - 48)

(***************************************************************************)
(* due_date values, and datetime.date.                                     *)
(***************************************************************************)
DStr(s) == [tag |-> "str", s |-> s]
DDate(y, m, d) == [tag |-> "date", y |-> y, m |-> m, d |-> d]
DNone == [tag |-> "none"]

IsLeap(y) == (y % 4 = 0 /\ y % 100 # 0) \/ y % 400 = 0

DaysInMonth(y, m) ==
    IF m = 2 THEN (IF IsLeap(y) THEN 29 ELSE 28)
    ELSE IF m \in {4, 6, 9, 11} THEN 30 ELSE 31

\* date.__lt__
DateLess(a, b) ==
    \/ a.y < b.y
    \/ a.y = b.y /\ a.m < b.m
    \/ a.y = b.y /\ a.m = b.m /\ a.d < b.d

\* d + timedelta(days=1)
NextDay(d) ==
    IF d.d < DaysInMonth(d.y, d.m) THEN DDate(d.y, d.m, d.d + 1)
    ELSE IF d.m < 12 THEN DDate(d.y, d.m + 1, 1)
    ELSE DDate(d.y + 1, 1, 1)

RECURSIVE AddDays(_, _)
\* d + timedelta(days=i), i >= 0
AddDays(d, i) == IF i = 0 THEN d ELSE AddDays(NextDay(d), i - 1)

\* d.strftime("%Y-%m-%d").  %m and %d are two digits; %Y is the C library's: glibc
\* writes the year without padding, other platforms pad it to four digits.
strftime(d, pad) ==
    (IF pad THEN Pad(d.y, 4) ELSE Digits(d.y)) \o <<45>> \o Pad(d.m, 2) \o <<45>> \o Pad(d.d, 2)

\* datetime.strptime(s, "%Y-%m-%d"): %Y is exactly four digits, %m and %d one or two
\* digits, nothing may follow, and the date must exist.  Ret(date) or ValueError.
strptime(s) ==
    LET dashes == {i \in DOMAIN s : s[i] = 45}
    IN  IF Cardinality(dashes) # 2 \/ \E i \in DOMAIN s \ dashes : ~IsDigit(s[i])
        THEN Raise("ValueError")
        ELSE LET p == CHOOSE i \in dashes : \A j \in dashes : i <= j
                 q == CHOOSE i \in dashes : \A j \in dashes : i >= j
                 ys == SubSeq(s, 1, p - 1)
                 ms == SubSeq(s, p + 1, q - 1)
                 ds == SubSeq(s, q + 1, Len(s))
             IN  IF Len(ys) # 4 \/ Len(ms) \notin {1, 2} \/ Len(ds) \notin {1, 2}
                 THEN Raise("ValueError")
                 ELSE LET y == DigitsValue(ys)
                          m == DigitsValue(ms)
                          d == DigitsValue(ds)
                      IN  IF y < 1 \/ m < 1 \/ m > 12 \/ d < 1 \/ d > DaysInMonth(y, m)
                          THEN Raise("ValueError")
                          ELSE Ret(DDate(y, m, d))

(***************************************************************************)
(* dict operations.                                                        *)
(***************************************************************************)
Has(t, f) == f \in DOMAIN t

\* t.get("completed", False)
GetCompleted(t) == IF Has(t, "completed") THEN t.completed ELSE FALSE

\* a faulty update: the record is replaced by the update dictionary
update_replaces(t, u) == u

\* t.update(u): the keys of u are set, every other key keeps its value
update(t, u) == [f \in DOMAIN t \cup DOMAIN u |-> IF f \in DOMAIN u THEN u[f] ELSE t[f]]

Ids(ts) == [i \in DOMAIN ts |-> ts[i].id]

(***************************************************************************)
(* The tasks file.                                                         *)
(***************************************************************************)
NoFile == [kind |-> "absent"]
BadFile == [kind |-> "invalid"]    \* content that is not JSON
JsonFile(d) == [kind |-> "json", data |-> d]

\* json.dump accepts str, int, bool, None; a datetime.date is a TypeError
Serializable(t) == ~(Has(t, "due_date") /\ t.due_date.tag = "date")

\* src/src: load_tasks()
load_tasks(f) ==
    CASE f.kind = "absent" -> Ret(<<>>)        \* except FileNotFoundError
      [] f.kind = "invalid" -> Ret(<<>>)       \* except json.JSONDecodeError
      [] OTHER -> Ret(f.data)

\* src/src: save_tasks(ts): the file after the call.  open(..., "w") truncates it
\* before json.dump writes, so a TypeError half-way leaves no valid JSON.
save_tasks(ts) ==
    IF \A i \in DOMAIN ts : Serializable(ts[i]) THEN JsonFile(ts) ELSE BadFile

\* a faulty generate_unique_id: the number of tasks plus one
generate_unique_id_by_count(ts) == Len(ts) + 1

generate_unique_id(ts) ==
    IF ts = <<>> THEN 1 ELSE SeqMax(Ids(ts)) + 1

(***************************************************************************)
(* src/src: edit_task(task_id, updated_task) on the file f: what it raises *)
(* and the file after the call.  The first record with the id is updated.  *)
(***************************************************************************)
\* a faulty edit_task: the save is outside the loop and nothing is raised
edit_task_silent(f, task_id, updated_task) ==
    LET ts == load_tasks(f).value
    IN  [raised |-> "none",
         file |-> save_tasks([i \in DOMAIN ts |->
                    IF ts[i].id = task_id THEN update(ts[i], updated_task) ELSE ts[i]])]

edit_task(f, task_id, updated_task) ==
    LET ts == load_tasks(f).value
        found == {i \in DOMAIN ts : ts[i].id = task_id}
    IN  IF found = {}
        THEN [raised |-> "ValueError", file |-> f]
        ELSE LET i == CHOOSE k \in found : \A j \in found : k <= j
             IN  [raised |-> "none",
                  file |-> save_tasks([ts EXCEPT ![i] = update(ts[i], updated_task)])]

(***************************************************************************)
(* src/src: create_recurring_tasks(task, instances), called at clock tick  *)
(* t on a platform whose strftime pads the year or not.                    *)
(***************************************************************************)
\* a faulty variant: the step between instances follows the recurrence label
create_recurring_tasks_by_label(task, instances, t, pad) ==
    IF ~Has(task, "due_date") THEN Raise("KeyError")
    ELSE IF task.due_date.tag # "str" THEN Raise("TypeError")
    ELSE LET base_date == strptime(task.due_date.s)
             step == IF ~Has(task, "recurrence") THEN 1
                     ELSE IF task.recurrence = "weekly" THEN 7
                     ELSE IF task.recurrence = "monthly" THEN 30 ELSE 1
         IN  IF base_date.raised # "none" THEN base_date
             ELSE Ret([k \in 1..instances |->
                        update(task,
                               [id |-> generate_unique_id(<<>>) + (k - 1),
                                due_date |-> DStr(strftime(AddDays(base_date.value, step * (k - 1)), pad)),
                                created_at |-> t])])

create_recurring_tasks(task, instances, t, pad) ==
    IF ~Has(task, "due_date") THEN Raise("KeyError")
    ELSE IF task.due_date.tag # "str" THEN Raise("TypeError")
    ELSE LET base_date == strptime(task.due_date.s)
         IN  IF base_date.raised # "none" THEN base_date
             ELSE Ret([k \in 1..instances |->
                        update(task,
                               [id |-> generate_unique_id(<<>>) + (k - 1),
                                due_date |-> DStr(strftime(AddDays(base_date.value, k - 1), pad)),
                                created_at |-> t])])

\* a faulty variant: the instances are built in the template itself, not in a copy
template_after_no_copy(task, instances, t, pad) ==
    LET r == create_recurring_tasks(task, instances, t, pad)
    IN  IF r.raised # "none" \/ instances = 0 THEN task ELSE r.value[instances]

\* The dictionary passed as task once create_recurring_tasks has returned: every
\* instance is built in task.copy(), so the argument keeps its fields.
template_after(task, instances, t, pad) == task

(***************************************************************************)
(* The query functions of src/src/tasks.py.                                *)
(***************************************************************************)
\* task.get(field) == v, for a v that is not None
FieldIs(t, field, v) == Has(t, field) /\ t[field] = v

filter_tasks_by_priority(ts, priority) ==
    SelectSeq(ts, LAMBDA t : FieldIs(t, "priority", priority))

filter_tasks_by_category(ts, category) ==
    SelectSeq(ts, LAMBDA t : FieldIs(t, "category", category))

\* a faulty filter: a record without the field counts as not completed
filter_tasks_by_completion_default(ts, completed) ==
    SelectSeq(ts, LAMBDA t : GetCompleted(t) = completed)

filter_tasks_by_completion(ts, completed) ==
    SelectSeq(ts, LAMBDA t : FieldIs(t, "completed", completed))

\* filter_tasks_by_completion of src/src/app.py: task.get("completed", False)
app_filter_tasks_by_completion(ts, completed) ==
    SelectSeq(ts, LAMBDA t : GetCompleted(t) = completed)

\* get_overdue_tasks(ts) on the day whose "%Y-%m-%d" string is today.  The strings
\* are compared as strings; a due_date that is no str cannot be compared with one.
get_overdue_tasks(ts, today) ==
    IF \E i \in DOMAIN ts :
          ~GetCompleted(ts[i]) /\ Has(ts[i], "due_date") /\ ts[i].due_date.tag # "str"
    THEN Raise("TypeError")
    ELSE Ret(SelectSeq(ts, LAMBDA t :
                ~GetCompleted(t)
                /\ LexLess(IF Has(t, "due_date") THEN t.due_date.s ELSE <<>>, today)))

\* priority_order of sort_tasks
priority_order(p) == CASE p = "High" -> 1 [] p = "Medium" -> 2 [] p = "Low" -> 3

\* What evaluating the sort key of task t raises, "none" if nothing
KeyError(t, sort_by) ==
    LET field == sort_by
    IN  IF ~Has(t, field) THEN "KeyError"
        ELSE IF sort_by = "priority"
             THEN (IF t.priority \in {"High", "Medium", "Low"} THEN "none" ELSE "KeyError")
        ELSE IF sort_by = "due_date"
             THEN (IF t.due_date.tag # "str" THEN "TypeError" ELSE strptime(t.due_date.s).raised)
        ELSE "none"

\* key(a) < key(b) for the key function of sort_by
KeyLess(a, b, sort_by) ==
    CASE sort_by = "due_date" ->
            DateLess(strptime(a.due_date.s).value, strptime(b.due_date.s).value)
      [] sort_by = "priority" -> priority_order(a.priority) < priority_order(b.priority)
      [] sort_by = "category" -> LexLess(a.category, b.category)

\* a faulty insertion: the record goes before the records with an equal key
insert_unstable(t, s, sort_by) ==
    LET after == {i \in DOMAIN s : ~KeyLess(s[i], t, sort_by)}
        n == IF after = {} THEN Len(s) + 1 ELSE CHOOSE i \in after : \A j \in after : i <= j
    IN  SubSeq(s, 1, n - 1) \o <<t>> \o SubSeq(s, n, Len(s))

\* The sorted list s with t inserted after every record whose key is not greater
insert(t, s, sort_by) ==
    LET after == {i \in DOMAIN s : KeyLess(t, s[i], sort_by)}
        n == IF after = {} THEN Len(s) + 1 ELSE CHOOSE i \in after : \A j \in after : i <= j
    IN  SubSeq(s, 1, n - 1) \o <<t>> \o SubSeq(s, n, Len(s))

RECURSIVE sorted(_, _)
\* sorted(ts, key=...): a stable sort, here by insertion from the left
sorted(ts, sort_by) ==
    IF ts = <<>> THEN <<>>
    ELSE insert(ts[Len(ts)], sorted(SubSeq(ts, 1, Len(ts) - 1), sort_by), sort_by)

sort_tasks(ts, sort_by) ==
    IF ts = <<>> THEN Ret(<<>>)
    ELSE IF sort_by \notin {"due_date", "priority", "category"} THEN Raise("ValueError")
    ELSE LET bad == {i \in DOMAIN ts : KeyError(ts[i], sort_by) # "none"}
         IN  IF bad # {}
             THEN Raise(KeyError(ts[CHOOSE i \in bad : \A j \in bad : i <= j], sort_by))
             ELSE Ret(sorted(ts, sort_by))

(***************************************************************************)
(* The values the UI's widgets offer.                                      *)
(***************************************************************************)
Work == <<87, 111, 114, 107>>
Personal == <<80, 101, 114, 115, 111, 110, 97, 108>>
School == <<83, 99, 104, 111, 111, 108>>
Other == <<79, 116, 104, 101, 114>>
Categories == {Work, Personal, School, Other}
Priorities == {"Low", "Medium", "High"}
RNone == "None"     \* the selectbox's None entry
Recurrences == {RNone, "daily", "weekly", "monthly"}

\* What a user enters in the form of main(): a few entries, one of them with the
\* title left empty.
Forms ==
    { [title |-> <<65>>, description |-> <<>>, priority |-> "High", category |-> Work,
       due_date |-> DDate(2024, 8, 1), recurrence |-> RNone],
      [title |-> <<98>>, description |-> <<100>>, priority |-> "Low", category |-> Personal,
       due_date |-> DDate(2024, 2, 28), recurrence |-> "daily"],
      [title |-> <<>>, description |-> <<>>, priority |-> "Medium", category |-> Other,
       due_date |-> DDate(2024, 12, 31), recurrence |-> "weekly"] }

NoCall == [op |-> "none"]

\* no process is running edit_task beside the operation modelled
NoProcs == <<>>

(***************************************************************************)
(* main() of src/src/app.py.  Every run starts with tasks = load_tasks()   *)
(* and handles at most one click.                                          *)
(***************************************************************************)
\* The entry "All" of the category selectbox
AllCategories == <<65, 108, 108>>

\* The entries of the category selectbox for the loaded list ts
CategoryOptions(ts) ==
    {AllCategories} \cup {IF Has(ts[i], "category") THEN ts[i].category ELSE Other : i \in DOMAIN ts}

PriorityOptions == {"All", "High", "Medium", "Low"}

SortOptions == {"Due Date", "Priority", "Category"}

\* The list main() displays for the widgets' values: filtered_tasks after the
\* filters and the sort.  The checkbox value show_completed is not read: line 256
\* drops the completed tasks whatever it is.
ListView(ts, filter_category, filter_priority, show_completed, sort_by) ==
    LET by_category == IF filter_category # AllCategories
                       THEN filter_tasks_by_category(ts, filter_category) ELSE ts
        by_priority == IF filter_priority # "All"
                       THEN filter_tasks_by_priority(by_category, filter_priority)
                       ELSE by_category
        filtered_tasks == SelectSeq(by_priority, LAMBDA t : ~GetCompleted(t))
    IN  sort_tasks(filtered_tasks,
                   CASE sort_by = "Due Date" -> "due_date"
                     [] sort_by = "Priority" -> "priority"
                     [] sort_by = "Category" -> "category")

\* The place in ts of the record displayed at position p of the list v: filters and
\* sort keep equal records in their order.
StoreIndex(ts, v, p) ==
    LET n == Cardinality({a \in 1..p : v[a] = v[p]})
    IN  CHOOSE i \in DOMAIN ts :
            ts[i] = v[p] /\ Cardinality({j \in 1..i : ts[j] = v[p]}) = n

\* The tasks of ts whose Complete, Edit and Delete buttons exist for some values of
\* the widgets.  The buttons are keyed by the task's id (lines 277, 283, 297), and
\* Streamlit stops the script at a widget whose key was used before, so the list is
\* displayed up to the first task that repeats an id.
Clickable(ts) ==
    {i \in DOMAIN ts :
        \E filter_category \in CategoryOptions(ts), filter_priority \in PriorityOptions,
           sort_by \in SortOptions :
            LET v == ListView(ts, filter_category, filter_priority, FALSE, sort_by)
            IN  /\ v.raised = "none"
                /\ \E p \in DOMAIN v.value :
                      /\ StoreIndex(ts, v.value, p) = i
                      /\ \A a, b \in 1..p : a # b => v.value[a].id # v.value[b].id}

FirstWithId(ts, id) ==
    CHOOSE k \in DOMAIN ts : ts[k].id = id /\ \A j \in DOMAIN ts : ts[j].id = id => k <= j

\* "Add Task" submitted with form f and "Number of recurrences" n
AddTask(f, n) ==
    LET ts == load_tasks(file).value
        new_task == [id |-> generate_unique_id(ts),
                     title |-> f.title,
                     description |-> f.description,
                     priority |-> f.priority,
                     category |-> f.category,
                     due_date |-> DStr(strftime(f.due_date, padYear)),
                     completed |-> FALSE,
                     created_at |-> now,
                     recurrence |-> f.recurrence]
        added == IF f.recurrence # RNone
                 THEN create_recurring_tasks(new_task, n, now, padYear).value
                 ELSE <<new_task>>
    IN  /\ Len(ts) + Len(added) <= MaxTasks
        /\ new_task.id <= MaxId
        /\ IF f.title # <<>>
           THEN /\ tasks' = ts \o added
                /\ file' = save_tasks(ts \o added)
                /\ call' = [op |-> "add", added |-> Len(added)]
           ELSE /\ tasks' = ts
                /\ file' = file
                /\ call' = [op |-> "add", added |-> 0]
        /\ UNCHANGED <<now, padYear, procs>>

\* "Complete" clicked on the displayed task ts[i]
Toggle(i) ==
    LET ts == load_tasks(file).value
    IN  /\ i \in Clickable(ts)
        /\ LET k == FirstWithId(ts, ts[i].id)
               new == [ts EXCEPT ![k] = update(ts[k], [completed |-> ~GetCompleted(ts[k])])]
           IN  /\ tasks' = new
               /\ file' = save_tasks(new)
               /\ call' = [op |-> "toggle", input |-> ts, clicked |-> i, index |-> k]
        /\ UNCHANGED <<now, padYear, procs>>

\* "Edit" clicked on the displayed task ts[i], the widgets returning form f
EditClick(i, f) ==
    LET ts == load_tasks(file).value
    IN  /\ i \in Clickable(ts)
        /\ LET task == ts[i]
               edited_task_data == [id |-> task.id,
                                    title |-> f.title,
                                    description |-> f.description,
                                    priority |-> f.priority,
                                    category |-> f.category,
                                    due_date |-> DStr(strftime(f.due_date, padYear)),
                                    completed |-> GetCompleted(task),
                                    created_at |-> task.created_at]
               edited == edit_task(file, task.id, edited_task_data)
           IN  /\ edited.raised = "none"
               /\ tasks' = ts
               /\ file' = save_tasks(ts)       \* line 295: the list loaded at line 194
               /\ call' = [op |-> "edit_click", index |-> i, edited |-> edited_task_data]
        /\ UNCHANGED <<now, padYear, procs>>

\* "Delete" clicked on the displayed task ts[i]
Delete(i) ==
    LET ts == load_tasks(file).value
    IN  /\ i \in Clickable(ts)
        /\ LET new == SelectSeq(ts, LAMBDA t : t.id # ts[i].id)
           IN  /\ tasks' = new
               /\ file' = save_tasks(new)
               /\ call' = [op |-> "delete", index |-> i]
        /\ UNCHANGED <<now, padYear, procs>>

\* time passes
Tick ==
    /\ now < MaxNow
    /\ now' = now + 1
    /\ UNCHANGED <<file, tasks, padYear, call, procs>>

Init ==
    /\ file \in {NoFile, BadFile, JsonFile(<<>>)}
    /\ tasks = <<>>
    /\ now = 0
    /\ padYear \in BOOLEAN
    /\ call = NoCall
    /\ procs = NoProcs

Next ==
    \/ \E f \in Forms, n \in 1..MaxInstances : AddTask(f, n)
    \/ \E i \in 1..MaxTasks : Toggle(i)
    \/ \E i \in 1..MaxTasks, f \in Forms : EditClick(i, f)
    \/ \E i \in 1..MaxTasks : Delete(i)
    \/ Tick

Spec == Init /\ [][Next]_vars

(***************************************************************************)
(* The list main() of src/src/app.py displays for a loaded store and the   *)
(* values of the filter, sort and show-completed widgets.                  *)
(***************************************************************************)
\* The record main() creates from form f with the given id and completed flag
Stored(id, f, completed) ==
    [id |-> id, title |-> f.title, description |-> f.description, priority |-> f.priority,
     category |-> f.category, due_date |-> DStr(strftime(f.due_date, TRUE)),
     completed |-> completed, created_at |-> 0, recurrence |-> f.recurrence]

FormA == CHOOSE f \in Forms : f.title = <<65>>
FormB == CHOOSE f \in Forms : f.title = <<98>>

\* Two records with id 1 are what AddTask leaves after a recurrence
StoredSamples == {Stored(1, FormA, FALSE), Stored(2, FormB, TRUE), Stored(1, FormB, FALSE)}

\* Stored records, among them completed ones, as the Complete button leaves them
ViewSamples == StoredSamples \cup {Stored(3, FormA, TRUE)}

Render(filter_category, filter_priority, show_completed, sort_by) ==
    /\ call' = [op |-> "view", input |-> tasks, category |-> filter_category,
                priority |-> filter_priority, show_completed |-> show_completed,
                sort_by |-> sort_by,
                result |-> ListView(tasks, filter_category, filter_priority,
                                    show_completed, sort_by)]
    /\ UNCHANGED <<file, tasks, now, padYear, procs>>

InitView ==
    /\ tasks \in SeqsUpTo(ViewSamples, MaxTasks)
    /\ file = (IF tasks = <<>> THEN NoFile ELSE JsonFile(tasks))
    /\ now = 0
    /\ padYear \in BOOLEAN
    /\ call = NoCall
    /\ procs = NoProcs

NextView ==
    \E filter_category \in CategoryOptions(tasks), filter_priority \in PriorityOptions,
       show_completed \in BOOLEAN, sort_by \in SortOptions :
        Render(filter_category, filter_priority, show_completed, sort_by)

SpecView == InitView /\ [][NextView]_vars

(***************************************************************************)
(* edit_task called on a store, as src/src/test_tasks.py does: the store   *)
(* is any list of a few records main() has written, or no file, or a file  *)
(* that is not JSON.                                                       *)
(***************************************************************************)
\* The update dictionaries passed to edit_task
Updates(task_id) ==
    { [title |-> <<78>>],
      [priority |-> "Medium", completed |-> TRUE],
      [id |-> task_id, title |-> <<78>>, category |-> School,
       due_date |-> DStr(strftime(DDate(2024, 8, 5), TRUE))],
      [description |-> <<110>>, created_at |-> MaxNow] }

EditTask(task_id, u) ==
    LET r == edit_task(file, task_id, u)
    IN  /\ file' = r.file
        /\ call' = [op |-> "edit_task", pre |-> file, task_id |-> task_id,
                    updates |-> u, raised |-> r.raised]
        /\ UNCHANGED <<tasks, now, padYear, procs>>

InitEdit ==
    /\ file \in {NoFile, BadFile} \cup {JsonFile(ts) : ts \in SeqsUpTo(StoredSamples, MaxTasks)}
    /\ tasks = <<>>
    /\ now = 0
    /\ padYear \in BOOLEAN
    /\ call = NoCall
    /\ procs = NoProcs

NextEdit == \E task_id \in 1..MaxId : \E u \in Updates(task_id) : EditTask(task_id, u)

SpecEdit == InitEdit /\ [][NextEdit]_vars

(***************************************************************************)
(* Calls of the query functions on task lists like those of the tests:     *)
(* records that carry only some of the fields, due dates before, on and    *)
(* after the day of the call.                                              *)
(***************************************************************************)
Iso(y, m, d) == DStr(strftime(DDate(y, m, d), TRUE))

QuerySamples ==
    { [id |-> 1, title |-> <<65>>, priority |-> "High", category |-> Work,
       completed |-> FALSE, due_date |-> Iso(2024, 1, 1)],
      [id |-> 2, title |-> <<98>>, priority |-> "Medium", category |-> Personal,
       completed |-> TRUE, due_date |-> Iso(2024, 1, 1)],
      [id |-> 10, title |-> <<67>>, priority |-> "High", category |-> Work,
       completed |-> FALSE, due_date |-> Iso(2024, 6, 15)],
      [id |-> 5, title |-> <<68>>, priority |-> "Low", category |-> Other,
       completed |-> FALSE, due_date |-> Iso(2025, 1, 1)],
      [id |-> 3, title |-> <<69>>] }

Todays == {strftime(DDate(2024, 1, 1), TRUE), strftime(DDate(2024, 6, 15), TRUE)}

GenerateUniqueId ==
    /\ call' = [op |-> "generate_unique_id", input |-> tasks,
                result |-> Ret(generate_unique_id(tasks))]
    /\ UNCHANGED <<file, tasks, now, padYear, procs>>

FilterByPriority(v) ==
    /\ call' = [op |-> "filter_tasks_by_priority", input |-> tasks, arg |-> v,
                result |-> Ret(filter_tasks_by_priority(tasks, v))]
    /\ UNCHANGED <<file, tasks, now, padYear, procs>>

FilterByCategory(v) ==
    /\ call' = [op |-> "filter_tasks_by_category", input |-> tasks, arg |-> v,
                result |-> Ret(filter_tasks_by_category(tasks, v))]
    /\ UNCHANGED <<file, tasks, now, padYear, procs>>

FilterByCompletion(v) ==
    /\ call' = [op |-> "filter_tasks_by_completion", input |-> tasks, arg |-> v,
                result |-> Ret(filter_tasks_by_completion(tasks, v))]
    /\ UNCHANGED <<file, tasks, now, padYear, procs>>

AppFilterByCompletion(v) ==
    /\ call' = [op |-> "app.filter_tasks_by_completion", input |-> tasks, arg |-> v,
                result |-> Ret(app_filter_tasks_by_completion(tasks, v))]
    /\ UNCHANGED <<file, tasks, now, padYear, procs>>

GetOverdue(today) ==
    /\ call' = [op |-> "get_overdue_tasks", input |-> tasks, arg |-> today,
                result |-> get_overdue_tasks(tasks, today)]
    /\ UNCHANGED <<file, tasks, now, padYear, procs>>

SortTasks(sort_by) ==
    /\ call' = [op |-> "sort_tasks", input |-> tasks, arg |-> sort_by,
                result |-> sort_tasks(tasks, sort_by)]
    /\ UNCHANGED <<file, tasks, now, padYear, procs>>

InitQuery ==
    /\ file = NoFile
    /\ tasks \in SeqsUpTo(QuerySamples, MaxLen)
    /\ now = 0
    /\ padYear \in BOOLEAN
    /\ call = NoCall
    /\ procs = NoProcs

NextQuery ==
    \/ GenerateUniqueId
    \/ \E v \in Priorities \cup {"Invalid"} : FilterByPriority(v)
    \/ \E v \in Categories : FilterByCategory(v)
    \/ \E v \in BOOLEAN : FilterByCompletion(v)
    \/ \E v \in BOOLEAN : AppFilterByCompletion(v)
    \/ \E today \in Todays : GetOverdue(today)
    \/ \E sort_by \in {"due_date", "priority", "category", "title"} : SortTasks(sort_by)

SpecQuery == InitQuery /\ [][NextQuery]_vars

(***************************************************************************)
(* src/bug_fixed/tasks.py: load_tasks and save_tasks, which keep due dates *)
(* as datetime.date in memory and as "%Y-%m-%d" strings in the file.       *)
(***************************************************************************)
\* a faulty load_tasks: a file that is not JSON is not handled
bf_load_tasks_unhandled(f) ==
    CASE f.kind = "absent" -> Ret(<<>>)
      [] f.kind = "invalid" -> Raise("JSONDecodeError")
      [] OTHER -> Ret(f.data)

\* a faulty load: the ValueError of strptime is not caught
bf_load_tasks_date_unhandled(f) ==
    CASE f.kind = "absent" -> Ret(<<>>)
      [] f.kind = "invalid" -> Ret(<<>>)
      [] OTHER ->
            IF \E i \in DOMAIN f.data :
                  /\ Has(f.data[i], "due_date") /\ f.data[i].due_date.tag = "str"
                  /\ strptime(f.data[i].due_date.s).raised # "none"
            THEN Raise("ValueError")
            ELSE Ret([i \in DOMAIN f.data |->
                       LET task == f.data[i]
                       IN  IF Has(task, "due_date") /\ task.due_date.tag = "str"
                           THEN update(task, [due_date |-> strptime(task.due_date.s).value])
                           ELSE task])

bf_load_tasks(f) ==
    CASE f.kind = "absent" -> Ret(<<>>)        \* except FileNotFoundError
      [] f.kind = "invalid" -> Ret(<<>>)       \* except json.JSONDecodeError
      [] OTHER ->
            Ret([i \in DOMAIN f.data |->
                  LET task == f.data[i]
                  IN  IF Has(task, "due_date") /\ task.due_date.tag = "str"
                      THEN LET parsed == strptime(task.due_date.s)
                           IN  update(task, [due_date |->
                                   IF parsed.raised = "none" THEN parsed.value ELSE DNone])
                      ELSE task])

\* The file after save_tasks(ts) on a platform that pads the year or not
bf_save_tasks(ts, pad) ==
    LET tasks_serializable ==
            [i \in DOMAIN ts |->
                LET task_copy == ts[i]
                IN  IF Has(task_copy, "due_date") /\ task_copy.due_date.tag = "date"
                    THEN update(task_copy, [due_date |-> DStr(strftime(task_copy.due_date, pad))])
                    ELSE task_copy]
    IN  save_tasks(tasks_serializable)

\* Task lists whose due_date is a date or missing
PersistSamples ==
    { [id |-> 1, title |-> <<65>>, description |-> <<100>>],
      [id |-> 2, title |-> <<98>>, completed |-> FALSE, due_date |-> DDate(2024, 8, 1)],
      [id |-> 3, title |-> <<67>>, completed |-> TRUE, due_date |-> DDate(2024, 2, 29)],
      [id |-> 4, title |-> <<68>>, due_date |-> DDate(999, 1, 2)] }

BfSave ==
    /\ file' = bf_save_tasks(tasks, padYear)
    /\ call' = [op |-> "save_tasks", input |-> tasks]
    /\ UNCHANGED <<tasks, now, padYear, procs>>

BfLoad ==
    /\ call' = [op |-> "load_tasks", pre |-> file, result |-> bf_load_tasks(file)]
    /\ UNCHANGED <<file, tasks, now, padYear, procs>>

InitPersist ==
    /\ file \in {NoFile, BadFile}
    /\ tasks \in SeqsUpTo(PersistSamples, MaxLen)
    /\ now = 0
    /\ padYear \in BOOLEAN
    /\ call = NoCall
    /\ procs = NoProcs

NextPersist == BfSave \/ BfLoad

SpecPersist == InitPersist /\ [][NextPersist]_vars

(***************************************************************************)
(* search_tasks.  The strings hold code points below 256.                  *)
(***************************************************************************)
\* str.lower() of one character: A-Z, and the capital letters of Latin-1
LowerChar(c) ==
    IF c \in 65..90 \/ (c \in 192..222 /\ c # 215) THEN c + 32 ELSE c

Lower(s) == [i \in DOMAIN s |-> LowerChar(s[i])]

\* sub in s
Contains(sub, s) ==
    \E k \in 0..(Len(s) - Len(sub)) : SubSeq(s, k + 1, k + Len(sub)) = sub

\* t.get(field, "")
GetText(t, field) == IF Has(t, field) THEN t[field] ELSE <<>>

\* a faulty search: the query is compared as typed
search_tasks_query_as_typed(ts, query) ==
    SelectSeq(ts, LAMBDA t : \/ Contains(query, Lower(GetText(t, "title")))
                             \/ Contains(query, Lower(GetText(t, "description"))))

search_tasks(ts, query) ==
    LET q == Lower(query)
    IN  SelectSeq(ts, LAMBDA t : \/ Contains(q, Lower(GetText(t, "title")))
                                 \/ Contains(q, Lower(GetText(t, "description"))))

\* Records in the manner of test_search_tasks: "Ab" / "cD", "bA" without a
\* description, a description "xAB" without a title, a capital E acute, and a
\* record with neither text.
SearchSamples ==
    { [id |-> 1, title |-> <<65, 98>>, description |-> <<99, 68>>],
      [id |-> 2, title |-> <<98, 65>>],
      [id |-> 3, description |-> <<120, 65, 66>>],
      [id |-> 4, title |-> <<201>>, description |-> <<>>],
      [id |-> 5] }

Queries ==
    { <<>>, <<97>>, <<65, 66>>, <<97, 98>>, <<98, 99>>, <<100>>, <<233>>, <<66, 65>>,
      <<122>> }

SearchTasks(query) ==
    /\ call' = [op |-> "search_tasks", input |-> tasks, arg |-> query,
                result |-> Ret(search_tasks(tasks, query))]
    /\ UNCHANGED <<file, tasks, now, padYear, procs>>

InitSearch ==
    /\ file = NoFile
    /\ tasks \in SeqsUpTo(SearchSamples, MaxLen)
    /\ now = 0
    /\ padYear \in BOOLEAN
    /\ call = NoCall
    /\ procs = NoProcs

NextSearch == \E query \in Queries : SearchTasks(query)

SpecSearch == InitSearch /\ [][NextSearch]_vars

(***************************************************************************)
(* create_recurring_tasks called on one template: in this specification    *)
(* tasks holds the dictionary passed as task.                              *)
(***************************************************************************)
\* The template of test_create_recurring_task, with other due dates and labels
Template(d, r) ==
    [title |-> <<82>>, description |-> <<>>, priority |-> "Medium", category |-> Work,
     due_date |-> DStr(d), recurrence |-> r]

TemplateDates ==
    {strftime(DDate(2024, 8, 1), TRUE), strftime(DDate(2024, 2, 28), TRUE),
     strftime(DDate(2023, 12, 31), TRUE), strftime(DDate(999, 12, 31), TRUE)}

\* ... and the record main() builds from the form, a dictionary without due_date,
\* and one whose due_date is the 30th of February
RecurTemplates ==
    {Template(d, r) : d \in TemplateDates, r \in Recurrences}
      \cup { [id |-> 2, title |-> <<98>>, description |-> <<100>>, priority |-> "Low",
              category |-> Personal, due_date |-> DStr(strftime(DDate(2024, 2, 28), TRUE)),
              completed |-> FALSE, created_at |-> 0, recurrence |-> "daily"],
             [title |-> <<82>>, recurrence |-> "weekly"],
             Template(<<50, 48, 50, 52, 45, 48, 50, 45, 51, 48>>, "monthly") }

CreateRecurring(instances) ==
    /\ call' = [op |-> "create_recurring_tasks", task |-> tasks, instances |-> instances,
                at |-> now,
                result |-> create_recurring_tasks(tasks, instances, now, padYear)]
    /\ tasks' = template_after(tasks, instances, now, padYear)
    /\ UNCHANGED <<file, now, padYear, procs>>

InitRecur ==
    /\ file = NoFile
    /\ tasks \in RecurTemplates
    /\ now = 0
    /\ padYear \in BOOLEAN
    /\ call = NoCall
    /\ procs = NoProcs

NextRecur == (\E instances \in 0..MaxInstances : CreateRecurring(instances)) \/ Tick

SpecRecur == InitRecur /\ [][NextRecur]_vars

(***************************************************************************)
(* src/bug_fixed: load_tasks on files written by hand or by another        *)
(* program.                                                                *)
(***************************************************************************)
\* Records as a JSON file holds them: due_date "2024-08-01", "2024-8-1",
\* "2024-13-45", "999-01-02", "soon", null, or none at all
FileSamples ==
    { [id |-> 1, title |-> <<65>>, completed |-> FALSE,
       due_date |-> DStr(strftime(DDate(2024, 8, 1), TRUE))],
      [id |-> 2, title |-> <<98>>,
       due_date |-> DStr(<<50, 48, 50, 52, 45, 56, 45, 49>>)],
      [id |-> 3, title |-> <<67>>, completed |-> TRUE,
       due_date |-> DStr(<<50, 48, 50, 52, 45, 49, 51, 45, 52, 53>>)],
      [id |-> 4, title |-> <<68>>, due_date |-> DStr(strftime(DDate(999, 1, 2), FALSE))],
      [id |-> 5, title |-> <<69>>, description |-> <<100>>,
       due_date |-> DStr(<<115, 111, 111, 110>>)],
      [id |-> 6, title |-> <<70>>, due_date |-> DNone],
      [id |-> 7, title |-> <<71>>] }

InitLoad ==
    /\ file \in {NoFile, BadFile} \cup {JsonFile(d) : d \in SeqsUpTo(FileSamples, MaxLen)}
    /\ tasks = <<>>
    /\ now = 0
    /\ padYear \in BOOLEAN
    /\ call = NoCall
    /\ procs = NoProcs

NextLoad == BfLoad

SpecLoad == InitLoad /\ [][NextLoad]_vars

(***************************************************************************)
(* Two processes run edit_task of src/src/tasks.py on the same file with   *)
(* no lock.  A call is three steps: load_tasks() and the update in memory, *)
(* the open(..., "w") of save_tasks, which empties the file, and the       *)
(* json.dump and close, which write the list the process holds.            *)
(***************************************************************************)
Procs == {1, 2}

\* What each process passes as updated_task
RaceUpdates(p) ==
    IF p = 1 THEN [title |-> <<78>>] ELSE [priority |-> "Medium", completed |-> TRUE]

\* lines 82-86: the list a process holds once the first record with the id is
\* updated
edited(ts, task_id, updated_task) ==
    LET i == CHOOSE k \in DOMAIN ts :
                 ts[k].id = task_id /\ \A j \in DOMAIN ts : ts[j].id = task_id => k <= j
    IN  [ts EXCEPT ![i] = update(ts[i], updated_task)]

\* lines 82-90: process p loads the file; it raises when no record has its id
RaceLoad(p) ==
    /\ procs.pc[p] = "start"
    /\ LET ts == load_tasks(file).value
       IN  IF \E i \in DOMAIN ts : ts[i].id = procs.task_id[p]
           THEN procs' = [procs EXCEPT !.pc[p] = "loaded",
                                       !.local[p] = edited(ts, procs.task_id[p], RaceUpdates(p)),
                                       !.log = Append(@, <<p, "load">>)]
           ELSE procs' = [procs EXCEPT !.pc[p] = "raised",
                                       !.log = Append(@, <<p, "load">>)]
    /\ UNCHANGED <<file, tasks, now, padYear, call>>

\* a faulty save: the file is opened for appending and keeps its content
RaceOpen_append(p) ==
    /\ procs.pc[p] = "loaded"
    /\ procs' = [procs EXCEPT !.pc[p] = "opened", !.log = Append(@, <<p, "open">>)]
    /\ UNCHANGED <<file, tasks, now, padYear, call>>

\* save_tasks, line 23: open(file_path, "w") leaves the file empty, which is not
\* JSON
RaceOpen(p) ==
    /\ procs.pc[p] = "loaded"
    /\ file' = BadFile
    /\ procs' = [procs EXCEPT !.pc[p] = "opened", !.log = Append(@, <<p, "open">>)]
    /\ UNCHANGED <<tasks, now, padYear, call>>

\* save_tasks, line 24: json.dump and the close write the list from the start of
\* the file.  When the other process has written since this one opened the
\* file, its bytes beyond the end of this text stay: the file holds this list if
\* its text is at least as long, and no JSON otherwise.
RaceDump(p) ==
    /\ procs.pc[p] = "opened"
    /\ file' \in (IF file.kind = "json"
                  THEN {save_tasks(procs.local[p]), BadFile}
                  ELSE {save_tasks(procs.local[p])})
    /\ procs' = [procs EXCEPT !.pc[p] = "done", !.log = Append(@, <<p, "dump">>)]
    /\ UNCHANGED <<tasks, now, padYear, call>>

InitRace ==
    /\ file \in {NoFile} \cup {JsonFile(ts) : ts \in SeqsUpTo(StoredSamples, MaxTasks)}
    /\ tasks = load_tasks(file).value
    /\ now = 0
    /\ padYear \in BOOLEAN
    /\ call = NoCall
    /\ \E ids \in [Procs -> 1..MaxId] :
          procs = [pc |-> [p \in Procs |-> "start"],
                   task_id |-> ids,
                   local |-> [p \in Procs |-> <<>>],
                   log |-> <<>>]

NextRace == \E p \in Procs : RaceLoad(p) \/ RaceOpen(p) \/ RaceDump(p)

SpecRace == InitRace /\ [][NextRace]_vars

(***************************************************************************)
(* Two runs of main() of src/bug_fixed/app.py, each submitting the "Add    *)
(* Task" form, on the same file with no lock.  A run is three steps: the   *)
(* load_tasks() at line 9 with the new task appended in memory, the        *)
(* open(..., "w") of save_tasks, and the json.dump and close.              *)
(***************************************************************************)
\* The record a run of src/bug_fixed/app.py has written for form f
BfStored(id, f) ==
    [id |-> id, title |-> f.title, description |-> f.description, priority |-> f.priority,
     category |-> f.category, due_date |-> DStr(strftime(f.due_date, TRUE)),
     completed |-> FALSE, created_at |-> 0]

BfStoredSamples == {BfStored(1, FormA), BfStored(2, FormB), BfStored(5, FormA)}

\* Stores of pairwise distinct ids
DistinctStores ==
    {ts \in SeqsUpTo(BfStoredSamples, MaxTasks) :
        \A i, j \in DOMAIN ts : i # j => ts[i].id # ts[j].id}

\* a faulty run: the new task's id is the number of tasks plus one
AddLoad_id_by_count(p) ==
    /\ procs.pc[p] = "start"
    /\ LET ts == bf_load_tasks(file).value
           f == procs.form[p]
           new_task == [id |-> Len(ts) + 1,
                        title |-> f.title,
                        description |-> f.description,
                        priority |-> f.priority,
                        category |-> f.category,
                        due_date |-> f.due_date,
                        completed |-> FALSE,
                        created_at |-> now]
       IN  IF f.title # <<>>
           THEN procs' = [procs EXCEPT !.pc[p] = "loaded",
                                       !.local[p] = Append(ts, new_task),
                                       !.log = Append(@, <<p, "load">>)]
           ELSE procs' = [procs EXCEPT !.pc[p] = "rejected",
                                       !.log = Append(@, <<p, "load">>)]
    /\ UNCHANGED <<file, tasks, now, padYear, call>>

\* lines 9-39: the list the run holds once the form is handled
AddLoad(p) ==
    /\ procs.pc[p] = "start"
    /\ LET ts == bf_load_tasks(file).value
           f == procs.form[p]
           new_task == [id |-> generate_unique_id(ts),
                        title |-> f.title,
                        description |-> f.description,
                        priority |-> f.priority,
                        category |-> f.category,
                        due_date |-> f.due_date,
                        completed |-> FALSE,
                        created_at |-> now]
       IN  IF f.title # <<>>
           THEN procs' = [procs EXCEPT !.pc[p] = "loaded",
                                       !.local[p] = Append(ts, new_task),
                                       !.log = Append(@, <<p, "load">>)]
           ELSE procs' = [procs EXCEPT !.pc[p] = "rejected",      \* line 25
                                       !.log = Append(@, <<p, "load">>)]
    /\ UNCHANGED <<file, tasks, now, padYear, call>>

\* src/bug_fixed/tasks.py line 52: open(file_path, "w") leaves the file empty
AddOpen(p) ==
    /\ procs.pc[p] = "loaded"
    /\ file' = BadFile
    /\ procs' = [procs EXCEPT !.pc[p] = "opened", !.log = Append(@, <<p, "open">>)]
    /\ UNCHANGED <<tasks, now, padYear, call>>

\* src/bug_fixed/tasks.py line 53: json.dump and the close write the list from the
\* start of the file; bytes the other run wrote beyond the end of this text stay.
AddDump(p) ==
    /\ procs.pc[p] = "opened"
    /\ file' \in (IF file.kind = "json"
                  THEN {bf_save_tasks(procs.local[p], padYear), BadFile}
                  ELSE {bf_save_tasks(procs.local[p], padYear)})
    /\ procs' = [procs EXCEPT !.pc[p] = "done", !.log = Append(@, <<p, "dump">>)]
    /\ UNCHANGED <<tasks, now, padYear, call>>

InitAdd ==
    /\ file \in {NoFile, BadFile} \cup {JsonFile(ts) : ts \in DistinctStores}
    /\ tasks = load_tasks(file).value
    /\ now = 0
    /\ padYear \in BOOLEAN
    /\ call = NoCall
    /\ \E forms \in [Procs -> Forms] :
          procs = [pc |-> [p \in Procs |-> "start"],
                   form |-> forms,
                   local |-> [p \in Procs |-> <<>>],
                   log |-> <<>>]

NextAdd == \E p \in Procs : AddLoad(p) \/ AddOpen(p) \/ AddDump(p)

SpecAdd == InitAdd /\ [][NextAdd]_vars

(***************************************************************************)
(* Properties.                                                             *)
(***************************************************************************)
\* The records of a store file; a missing file or one that is not JSON holds none
StoreOf(f) == IF f.kind = "json" THEN f.data ELSE <<>>

MaxOf(S) == CHOOSE m \in S : \A x \in S : x <= m

\* C1: in every state reachable from an empty store by add, add with recurrence,
\* complete-toggle, edit and delete, the ids in the persisted store are pairwise
\* distinct.
C1_IdsDistinct ==
    \A i, j \in DOMAIN StoreOf(file) : i # j => StoreOf(file)[i].id # StoreOf(file)[j].id

\* C3: every record the add operation puts into the store, every instance of a
\* recurrence expansion included, has id = max(ids already in the store) + 1, or 1
\* when the store is empty.  The records already in the store when an instance is
\* added are those before it in the list (the records loaded and the instances
\* added before it).
C3_AddedIdIsMaxPlusOne ==
    call.op = "add" =>
        \A i \in (Len(StoreOf(file)) - call.added + 1)..Len(StoreOf(file)) :
            StoreOf(file)[i].id =
                IF i = 1 THEN 1 ELSE MaxOf({StoreOf(file)[j].id : j \in 1..(i - 1)}) + 1

\* The index of the record edit_task(task_id, ...) is to change in store ts
Target(ts, task_id) ==
    CHOOSE k \in DOMAIN ts : ts[k].id = task_id /\ \A j \in 1..(k - 1) : ts[j].id # task_id

HasId(ts, task_id) == \E i \in DOMAIN ts : ts[i].id = task_id

\* C6: when the store holds a record with id task_id, edit_task(task_id, updates)
\* leaves the store with as many records in the same order; the target record (the
\* first with that id) has every field named in updates set to the given value and
\* every other field unchanged; every other record is unchanged.
C6_EditChangesOnlyTarget ==
    (call.op = "edit_task" /\ HasId(StoreOf(call.pre), call.task_id)) =>
        /\ call.raised = "none"
        /\ file.kind = "json"
        /\ Len(file.data) = Len(call.pre.data)
        /\ LET old == call.pre.data
               new == file.data
               k == Target(old, call.task_id)
           IN  /\ DOMAIN new[k] = DOMAIN old[k] \cup DOMAIN call.updates
               /\ \A f \in DOMAIN call.updates : new[k][f] = call.updates[f]
               /\ \A f \in DOMAIN old[k] \ DOMAIN call.updates : new[k][f] = old[k][f]
               /\ \A j \in DOMAIN old : j # k => new[j] = old[j]

\* a two-record store whose second record was edited and changed
C6_Witness ==
    /\ call.op = "edit_task"
    /\ HasId(StoreOf(call.pre), call.task_id)
    /\ Len(StoreOf(call.pre)) = 2
    /\ Target(call.pre.data, call.task_id) = 2
    /\ file # call.pre

\* C7: when no record of the store has id task_id (the store may be empty, or its
\* file absent), edit_task(task_id, updates) fails with a not-found error and the
\* persisted store is what it was before the call.
C7_EditNotFoundRaises ==
    (call.op = "edit_task" /\ ~HasId(StoreOf(call.pre), call.task_id)) =>
        /\ call.raised = "ValueError"
        /\ file = call.pre

\* a store of two records, neither with the id asked for
C7_Witness ==
    /\ call.op = "edit_task"
    /\ ~HasId(StoreOf(call.pre), call.task_id)
    /\ Len(StoreOf(call.pre)) = 2
    /\ call.raised = "ValueError"

\* the file is absent and stays absent
C7_WitnessNoFile ==
    /\ call.op = "edit_task"
    /\ call.pre = NoFile
    /\ file = NoFile
    /\ call.raised = "ValueError"

\* C2: generate_unique_id(tasks) is 1 for the empty list and max(id) + 1 otherwise,
\* so it is greater than every id of a non-empty list.
C2_GenerateUniqueId ==
    call.op = "generate_unique_id" =>
        /\ call.result.raised = "none"
        /\ call.input = <<>> => call.result.value = 1
        /\ call.input # <<>> =>
              /\ call.result.value = MaxOf({call.input[i].id : i \in DOMAIN call.input}) + 1
              /\ \A i \in DOMAIN call.input : call.result.value > call.input[i].id

\* a list whose largest id is neither its last nor its length
C2_Witness ==
    /\ call.op = "generate_unique_id"
    /\ Len(call.input) = 2
    /\ call.input[1].id = 10
    /\ call.result.value = 11

\* C4: load on a path whose file is absent, or whose content is not JSON, returns
\* the empty list and raises nothing; the file is left as it was.
C4_LoadMissingOrCorrupt ==
    (call.op = "load_tasks" /\ call.pre.kind \in {"absent", "invalid"}) =>
        /\ call.result = Ret(<<>>)
        /\ file = call.pre

\* load has run on a file that is not JSON
C4_Witness ==
    /\ call.op = "load_tasks"
    /\ call.pre.kind = "invalid"
    /\ call.result.raised = "none"

\* load has run on a missing file
C4_WitnessNoFile ==
    /\ call.op = "load_tasks"
    /\ call.pre.kind = "absent"

\* C5: for every task list in which each due_date is a date or missing,
\* save(tasks) followed by load returns a list equal to tasks: same length and
\* order, every field equal, each due_date the original date.
C5_SaveLoadRoundTrip ==
    (call.op = "load_tasks" /\ call.pre.kind = "json") => call.result = Ret(tasks)

\* What does hold: the round trip of the lists whose years have four digits, and of
\* every list where strftime pads the year
RoundTripFourDigitYears ==
    ( /\ call.op = "load_tasks"
      /\ call.pre.kind = "json"
      /\ \/ padYear
         \/ \A i \in DOMAIN tasks : Has(tasks[i], "due_date") => tasks[i].due_date.y >= 1000 ) =>
        call.result = Ret(tasks)

\* The members of a set of indices, in increasing order
RECURSIVE Ascending(_)
Ascending(S) ==
    IF S = {} THEN <<>>
    ELSE LET m == CHOOSE x \in S : \A y \in S : x <= y IN <<m>> \o Ascending(S \ {m})

\* The field a filter looks at
FilterField(op) ==
    CASE op = "filter_tasks_by_priority" -> "priority"
      [] op = "filter_tasks_by_category" -> "category"
      [] op = "filter_tasks_by_completion" -> "completed"

IsFilter(op) ==
    op \in {"filter_tasks_by_priority", "filter_tasks_by_category", "filter_tasks_by_completion"}

\* C8: each of filter_tasks_by_priority, filter_tasks_by_category and
\* filter_tasks_by_completion returns exactly the records of the input whose
\* priority, category or completed field equals v, each once, in input order, and
\* leaves the input list as it was.
C8_FiltersSelectInOrder ==
    IsFilter(call.op) =>
        LET f == FilterField(call.op)
            hits == Ascending({i \in DOMAIN call.input :
                                  f \in DOMAIN call.input[i] /\ call.input[i][f] = call.arg})
        IN  /\ call.result.raised = "none"
            /\ Len(call.result.value) = Len(hits)
            /\ \A k \in DOMAIN hits : call.result.value[k] = call.input[hits[k]]
            /\ tasks = call.input

\* a filter kept the first and the third record of three and dropped the second
C8_Witness ==
    /\ IsFilter(call.op)
    /\ Len(call.input) = 3
    /\ Len(call.result.value) = 2
    /\ call.result.value[1] = call.input[1]
    /\ call.result.value[2] = call.input[3]
    /\ call.input[1] # call.input[3]

\* a filter ran on a record that lacks the field
C8_WitnessMissingField ==
    /\ IsFilter(call.op)
    /\ \E i \in DOMAIN call.input : FilterField(call.op) \notin DOMAIN call.input[i]
    /\ call.result.value # <<>>

\* The number yyyymmdd of an ISO 8601 date string "yyyy-mm-dd"; dates are in
\* chronological order when these numbers are in numerical order
IsoNumber(s) ==
    LET v(i) == s[i] - 48
    IN  10000 * (1000 * v(1) + 100 * v(2) + 10 * v(3) + v(4))
          + 100 * (10 * v(6) + v(7)) + (10 * v(9) + v(10))

\* s is the ISO 8601 string of a calendar date
IsIso(s) ==
    /\ Len(s) = 10
    /\ s[5] = 45 /\ s[8] = 45
    /\ \A i \in {1, 2, 3, 4, 6, 7, 9, 10} : s[i] \in 48..57
    /\ LET y == IsoNumber(s) \div 10000
           m == (IsoNumber(s) \div 100) % 100
           d == IsoNumber(s) % 100
       IN  y >= 1 /\ m \in 1..12 /\ d >= 1 /\ d <= DaysInMonth(y, m)

HasDueDate(t) == "due_date" \in DOMAIN t /\ t.due_date.tag = "str" /\ IsIso(t.due_date.s)

Overdue(t, today) ==
    /\ ~("completed" \in DOMAIN t /\ t.completed)
    /\ HasDueDate(t)
    /\ IsoNumber(t.due_date.s) < IsoNumber(today)

\* C9: get_overdue_tasks returns exactly the records that are not completed and have
\* a due date strictly before the current date, in input order: never a completed
\* task, a task due today or later, or a task without a due date.
C9_OverdueExact ==
    call.op = "get_overdue_tasks" =>
        LET hits == Ascending({i \in DOMAIN call.input : Overdue(call.input[i], call.arg)})
        IN  /\ call.result.raised = "none"
            /\ Len(call.result.value) = Len(hits)
            /\ \A k \in DOMAIN hits : call.result.value[k] = call.input[hits[k]]

\* The record carries a valid value for the sort key
SortKeyValid(t, key) ==
    CASE key = "due_date" -> HasDueDate(t)
      [] key = "priority" -> "priority" \in DOMAIN t /\ t.priority \in {"High", "Medium", "Low"}
      [] key = "category" -> "category" \in DOMAIN t

\* a comes strictly before b in the order of the key
Precedes(a, b, key) ==
    CASE key = "due_date" -> IsoNumber(a.due_date.s) < IsoNumber(b.due_date.s)
      [] key = "priority" ->
            \/ a.priority = "High" /\ b.priority \in {"Medium", "Low"}
            \/ a.priority = "Medium" /\ b.priority = "Low"
      [] key = "category" -> LexLess(a.category, b.category)

SameKey(a, b, key) == ~Precedes(a, b, key) /\ ~Precedes(b, a, key)

\* C10: for a task list whose records all carry a valid value for the sort field,
\* sort_tasks(tasks, key), key in {due_date, priority, category}, returns a
\* permutation of the input in non-decreasing key order in which records with equal
\* keys keep their input order; the input list is not reordered.
C10_SortStable ==
    ( /\ call.op = "sort_tasks"
      /\ call.arg \in {"due_date", "priority", "category"}
      /\ \A i \in DOMAIN call.input : SortKeyValid(call.input[i], call.arg) ) =>
        /\ call.result.raised = "none"
        /\ LET in == call.input
               out == call.result.value
               key == call.arg
           IN  /\ Len(out) = Len(in)
               /\ \A i, j \in DOMAIN out : i < j => ~Precedes(out[j], out[i], key)
               /\ \A x \in Range(in) :
                     SelectSeq(out, LAMBDA t : SameKey(t, x, key))
                         = SelectSeq(in, LAMBDA t : SameKey(t, x, key))
        /\ tasks = call.input

\* three records were reordered, two of them distinct with equal keys
C10_Witness ==
    /\ call.op = "sort_tasks"
    /\ call.result.raised = "none"
    /\ Len(call.input) = 3
    /\ call.result.value # call.input
    /\ \E i, j \in DOMAIN call.input :
          /\ i < j
          /\ call.input[i] # call.input[j]
          /\ SameKey(call.input[i], call.input[j], call.arg)

\* The calendar date a year-month-day string denotes, its fields read as numbers
\* whatever their width; DNone when the string has no such reading.
DateRead(s) ==
    LET dashes == {i \in DOMAIN s : s[i] = 45}
    IN  IF Cardinality(dashes) # 2 \/ \E i \in DOMAIN s \ dashes : s[i] \notin 48..57
        THEN DNone
        ELSE LET p == CHOOSE i \in dashes : \A j \in dashes : i <= j
                 q == CHOOSE i \in dashes : \A j \in dashes : i >= j
             IN  IF p = 1 \/ q = p + 1 \/ q = Len(s) THEN DNone
                 ELSE DDate(DigitsValue(SubSeq(s, 1, p - 1)),
                            DigitsValue(SubSeq(s, p + 1, q - 1)),
                            DigitsValue(SubSeq(s, q + 1, Len(s))))

\* The number of the day d, counting from 0001-01-01 as day 1
DayNumber(d) ==
    LET y == d.y - 1
        before == <<0, 31, 59, 90, 120, 151, 181, 212, 243, 273, 304, 334>>
    IN  365 * y + (y \div 4) - (y \div 100) + (y \div 400)
          + before[d.m] + (IF d.m > 2 /\ IsLeap(d.y) THEN 1 ELSE 0) + d.d

\* C11: create_recurring_tasks(task, count) on a template with a due date returns
\* exactly count records, and the record at position i (from 0) is due i calendar
\* days after the template, whatever the template's recurrence label.
C11_RecurringDailyDates ==
    (call.op = "create_recurring_tasks" /\ HasDueDate(call.task)) =>
        /\ call.result.raised = "none"
        /\ Len(call.result.value) = call.instances
        /\ \A k \in 1..call.instances :
              LET r == call.result.value[k]
              IN  /\ "due_date" \in DOMAIN r /\ r.due_date.tag = "str"
                  /\ DateRead(r.due_date.s) # DNone
                  /\ DayNumber(DateRead(r.due_date.s))
                        = DayNumber(DateRead(call.task.due_date.s)) + (k - 1)

\* A weekly template due on the last day of 2023 gave two instances, the second due
\* on the first day of 2024.
C11_Witness ==
    /\ call.op = "create_recurring_tasks"
    /\ call.task = Template(strftime(DDate(2023, 12, 31), TRUE), "weekly")
    /\ call.instances = MaxInstances
    /\ call.result.raised = "none"
    /\ call.result.value[2].due_date = DStr(strftime(DDate(2024, 1, 1), TRUE))

\* A call with count 0 returned the empty list.
C11_WitnessZero ==
    /\ call.op = "create_recurring_tasks" /\ HasDueDate(call.task)
    /\ call.instances = 0 /\ call.result = Ret(<<>>)

\* The fields create_recurring_tasks sets in every instance
InstanceFields == {"id", "due_date", "created_at"}

\* C16: the records create_recurring_tasks returns have pairwise distinct ids
\* among themselves, every field other than id, due date and created_at equals the
\* template's, and the template passed in is not modified.
C16_RecurringCopies ==
    (call.op = "create_recurring_tasks" /\ call.result.raised = "none") =>
        LET rs == call.result.value
        IN  /\ \A j, k \in DOMAIN rs : j # k => rs[j].id # rs[k].id
            /\ \A k \in DOMAIN rs :
                  /\ DOMAIN rs[k] = DOMAIN call.task \cup InstanceFields
                  /\ \A f \in DOMAIN call.task \ InstanceFields : rs[k][f] = call.task[f]
            /\ tasks = call.task

\* The record main() builds, which has an id and a created_at of its own, gave two
\* instances at a later clock tick.
C16_Witness ==
    /\ call.op = "create_recurring_tasks"
    /\ "id" \in DOMAIN call.task /\ call.task.id = 2
    /\ call.at # call.task.created_at
    /\ call.result.raised = "none"
    /\ Len(call.result.value) = MaxInstances
    /\ call.result.value[2].id = 2 /\ call.result.value[1].id = 1

\* Two characters are the same letter when letter case is ignored
SameLetter(a, b) ==
    LET capital(c) == c \in 65..90 \/ (c \in 192..222 /\ c # 215)
    IN  a = b \/ (capital(a) /\ b = a + 32) \/ (capital(b) /\ a = b + 32)

\* q occurs in s as a substring when letter case is ignored
OccursIgnoringCase(q, s) ==
    \E k \in 0..(Len(s) - Len(q)) : \A i \in 1..Len(q) : SameLetter(s[k + i], q[i])

TextOf(t, f) == IF f \in DOMAIN t THEN t[f] ELSE <<>>

\* C12: search_tasks returns, in input order, exactly the records whose title or
\* description contains the query as a substring when letter case is ignored; a
\* missing title or description counts as the empty string, and the empty query
\* returns every record of the input.
C12_SearchIgnoresCase ==
    call.op = "search_tasks" =>
        LET hits == Ascending({i \in DOMAIN call.input :
                                  \/ OccursIgnoringCase(call.arg, TextOf(call.input[i], "title"))
                                  \/ OccursIgnoringCase(call.arg, TextOf(call.input[i], "description"))})
        IN  /\ call.result.raised = "none"
            /\ Len(call.result.value) = Len(hits)
            /\ \A k \in DOMAIN hits : call.result.value[k] = call.input[hits[k]]
            /\ call.arg = <<>> => call.result.value = call.input

\* The query "AB" found "Ab" in a title and "xAB" in a description, and passed
\* over the record between them, which has no text.
C12_Witness ==
    /\ call.op = "search_tasks"
    /\ call.arg = <<65, 66>>
    /\ Len(call.input) = 3
    /\ call.input[2] = [id |-> 5]
    /\ call.result.value = <<call.input[1], call.input[3]>>
    /\ call.input[1].id = 1 /\ call.input[3].id = 3

\* The empty query returned a list that holds a record with no title and no
\* description.
C12_WitnessEmptyQuery ==
    /\ call.op = "search_tasks" /\ call.arg = <<>>
    /\ \E i \in DOMAIN call.input : call.input[i] = [id |-> 5]
    /\ call.result.value = call.input

\* C13: sort_tasks called with a key that is not one of due_date, priority and
\* category fails with an error for every input list, the empty list included; it
\* never returns a result for such a key.
C13_UnknownKeyRaises ==
    (call.op = "sort_tasks" /\ call.arg \notin {"due_date", "priority", "category"}) =>
        call.result.raised # "none"

\* The field each filter looks at, the filter of src/src/app.py included
FilteredField(op) ==
    IF op = "app.filter_tasks_by_completion" THEN "completed" ELSE FilterField(op)

\* C14: a record that lacks the filtered field is never returned by any filter,
\* for any filter value, and no filter raises on such a record.
C14_MissingFieldNeverReturned ==
    (IsFilter(call.op) \/ call.op = "app.filter_tasks_by_completion") =>
        /\ call.result.raised = "none"
        /\ \A k \in DOMAIN call.result.value :
              FilteredField(call.op) \in DOMAIN call.result.value[k]

\* s is the year-month-day string of a calendar date: a year of four digits, month
\* and day of one or two digits, and a day that exists
IsDateString(s) ==
    LET d == DateRead(s)
        p == CHOOSE i \in DOMAIN s : s[i] = 45 /\ \A j \in DOMAIN s : s[j] = 45 => i <= j
        q == CHOOSE i \in DOMAIN s : s[i] = 45 /\ \A j \in DOMAIN s : s[j] = 45 => i >= j
    IN  /\ d # DNone
        /\ p = 5 /\ q - p \in {2, 3} /\ Len(s) - q \in {1, 2}
        /\ d.y >= 1 /\ d.m \in 1..12 /\ d.d >= 1 /\ d.d <= DaysInMonth(d.y, d.m)

CompletedPassing(ts, filter_category, filter_priority) ==
    {i \in DOMAIN ts :
        /\ ts[i].completed
        /\ filter_category \in {AllCategories, ts[i].category}
        /\ filter_priority \in {"All", ts[i].priority}}

\* C20: the list view honours the show-completed toggle: when it is on, every
\* completed task that passes the selected category and priority filters is in the
\* displayed list; when it is off, no completed task is displayed.
C20_ShowCompletedHonoured ==
    call.op = "view" =>
        /\ call.result.raised = "none"
        /\ call.show_completed =>
              \A i \in CompletedPassing(call.input, call.category, call.priority) :
                  \E p \in DOMAIN call.result.value : call.result.value[p] = call.input[i]
        /\ ~call.show_completed =>
              \A p \in DOMAIN call.result.value : ~call.result.value[p].completed

\* C17: the complete/undo toggle on a task changes only that task's completed
\* field, to its negation: after it the persisted store has the same records in the
\* same order, and every other field of the toggled record and every field of
\* every other record is unchanged.
C17_ToggleChangesOnlyCompleted ==
    call.op = "toggle" =>
        LET ts == call.input
            i == call.clicked
        IN  file = JsonFile([ts EXCEPT ![i] = [ts[i] EXCEPT !.completed = ~ts[i].completed]])

\* C18: after any sequence of edit_task calls, with any update fields, following a
\* record's creation, the record's created_at is the value set when it was
\* created: each call leaves the created_at of every record as it was.
C18_CreatedAtImmutable ==
    (call.op = "edit_task" /\ call.raised = "none") =>
        /\ file.kind = "json"
        /\ Len(file.data) = Len(call.pre.data)
        /\ \A i \in DOMAIN file.data : file.data[i].created_at = call.pre.data[i].created_at

\* The steps so far are both loads, then the whole save of process a, then the
\* whole save of process b
LoadsThenSaves(a, b) ==
    /\ Len(procs.log) = 6
    /\ {procs.log[1], procs.log[2]} = {<<a, "load">>, <<b, "load">>}
    /\ SubSeq(procs.log, 3, 6) = <<<<a, "open">>, <<a, "dump">>, <<b, "open">>, <<b, "dump">>>>

\* C19: with no locking, two edit_task calls run by different processes on
\* different records of the same store can interleave so that both loads precede
\* both saves; the resulting store then holds only the later writer's change, the
\* earlier writer's change is lost, and neither call reports an error.  (tasks is
\* the store before the calls.)
C19_LastWriterWins ==
    \A a, b \in Procs :
        (/\ a # b
         /\ procs # NoProcs
         /\ LoadsThenSaves(a, b)
         /\ HasId(tasks, procs.task_id[a]) /\ HasId(tasks, procs.task_id[b])
         /\ Target(tasks, procs.task_id[a]) # Target(tasks, procs.task_id[b])) =>
            LET ka == Target(tasks, procs.task_id[a])
                kb == Target(tasks, procs.task_id[b])
            IN  /\ procs.pc[a] = "done" /\ procs.pc[b] = "done"
                /\ file.kind = "json"
                /\ Len(file.data) = Len(tasks)
                /\ file.data[ka] = tasks[ka]
                /\ \A f \in DOMAIN RaceUpdates(b) : file.data[kb][f] = RaceUpdates(b)[f]
                /\ \A j \in DOMAIN tasks :
                      \A f \in DOMAIN tasks[j] :
                          (j # kb \/ f \notin DOMAIN RaceUpdates(b)) => file.data[j][f] = tasks[j][f]

\* Process 1 changed the title of the first record and saved, then process 2
\* saved its list, in which the second record is changed and the first has its
\* old title.
C19_Witness ==
    /\ procs # NoProcs
    /\ LoadsThenSaves(1, 2)
    /\ Len(tasks) = 2
    /\ Target(tasks, procs.task_id[1]) = 1 /\ Target(tasks, procs.task_id[2]) = 2
    /\ procs.local[1][1].title # tasks[1].title
    /\ file.kind = "json"
    /\ file.data[1] = tasks[1]
    /\ file.data[2] # tasks[2]

\* C21: in the UI's Edit handler, which calls edit_task(id, edited_data) and then
\* save_tasks(tasks) with the list loaded at the start of the run, the persisted
\* store at the end of the handler holds the edited_data values for the record
\* with that id: some record with the id has every field of edited_data.
C21_EditHandlerPersists ==
    call.op = "edit_click" =>
        /\ file.kind = "json"
        /\ \E j \in DOMAIN file.data :
              /\ file.data[j].id = call.edited.id
              /\ \A f \in DOMAIN call.edited : file.data[j][f] = call.edited[f]

\* C22: starting from a store with pairwise distinct ids, under every interleaving
\* of two add flows without recurrence, the persisted store, as load_tasks reads
\* it, has pairwise distinct ids in every reachable state, even when both flows
\* assign the same id and one added task is overwritten.
C22_ConcurrentAddsKeepIdsDistinct ==
    LET ts == bf_load_tasks(file).value
    IN  \A i, j \in DOMAIN ts : i # j => ts[i].id # ts[j].id

\* Both runs loaded the same store of two tasks before either saved, gave their
\* new tasks the same id, and saved one after the other: the file holds three
\* tasks, the last of them the second writer's.
C22_Witness ==
    /\ procs # NoProcs
    /\ LoadsThenSaves(1, 2)
    /\ Len(tasks) = 2
    /\ procs.local[1][3].id = procs.local[2][3].id
    /\ procs.local[1][3].title # procs.local[2][3].title
    /\ file.kind = "json"
    /\ Len(file.data) = 3
    /\ file.data[3].title = procs.local[2][3].title

=============================================================================
